---- MODULE Spec2Model ----
(***************************************************************************)
(* Buddy allocator (nic-obert/buddy-allocator), slab-backed variant:       *)
(* src/src/buddy_allocator.rs (facade) and src/src/alloc_table.rs (block   *)
(* tree).  Tree nodes other than the root live in cells of the fixed-size  *)
(* node allocator (the "proto allocator"), which has M / B cells.          *)
(*                                                                         *)
(* Addresses are plain integers; 0 is the null pointer.  A node reference  *)
(* is 0 for the root (the alloc_table field) or the index of a cell.       *)
(***************************************************************************)
EXTENDS Integers, FiniteSets, Sequences, TLC

\* ---------------------------------------------------------------- bounds
\* M = B * 2^Order: Order is the height of the deepest possible tree.
Order == 2
\* Address at which the arena starts (memory.as_ptr()); it need not be aligned.
ArenaBase == 3
\* alloc::<T>() is called for types of size 0..MaxTypeSize.
MaxTypeSize == 2

\* ------------------------------------------------------- type parameters
\* Heap size (const generic M, a power of two).
M == 8

RECURSIVE Pow2(_)
Pow2(n) == IF n = 0 THEN 1 ELSE 2 * Pow2(n - 1)

\* Zero-order block size (const generic B, a power of two with M = B * 2^n).
B == M \div Pow2(Order)

\* Number of cells of the node allocator: FixedSizeAllocator<40, {M / B}>.
BLOCK_COUNT == M \div B

Null == 0

\* --------------------------------------------------------------- inputs
Sizes == 0..(M + 1)

TypeSizes == 0..MaxTypeSize

VARIABLES
    memory,             \* address of the first byte of the arena
    alloc_table,        \* the root BlockNode
    proto_allocator,    \* cell index -> BlockNode stored there, or Vacant
    upper_memory_bound, \* memory + M
    total_free,         \* running count of free bytes
    panicked,           \* an unwrap() failed: the call never returned
    live,               \* ghost: <<pointer, block size>> issued and not yet freed -> how often
    last                \* ghost: the last call, its argument and what it returned

vars == <<memory, alloc_table, proto_allocator, upper_memory_bound,
          total_free, panicked, live, last>>

Pointers == 0..(memory + M + 1)

\* ---------------------------------------------------------- BlockState
FreeLeaf == [tag |-> "FreeLeaf", left |-> 0, right |-> 0]

AllocatedLeaf == [tag |-> "AllocatedLeaf", left |-> 0, right |-> 0]

Parent(left, right) == [tag |-> "Parent", left |-> left, right |-> right]

\* A cell that holds no node (its bytes are never read by the tree).
Vacant == [block_address |-> 0, size |-> 0,
           state |-> [tag |-> "Vacant", left |-> 0, right |-> 0]]

\* Mutant of byte_add: the offset is dropped.
byte_add_nothing(ptr, count) == ptr

\* pointer::byte_add
byte_add(ptr, count) == ptr + count

\* BlockNode::new
BlockNode_new(size, address) ==
    [block_address |-> address, size |-> size, state |-> FreeLeaf]

\* The allocator object the methods work on.
Self ==
    [memory |-> memory, alloc_table |-> alloc_table,
     proto_allocator |-> proto_allocator,
     upper_memory_bound |-> upper_memory_bound, total_free |-> total_free]

\* Dereference of a node reference (the root, or left.as_mut()/right.as_mut()).
NodeAt(self, ref) ==
    IF ref = 0 THEN self.alloc_table ELSE self.proto_allocator[ref]

\* self.state = state, on the node `ref` refers to.
SetState(self, ref, state) ==
    IF ref = 0
    THEN [self EXCEPT !.alloc_table.state = state]
    ELSE [self EXCEPT !.proto_allocator[ref].state = state]

\* ------------------------------------------------ the node allocator
FreeCells(pa) == {i \in 1..BLOCK_COUNT : pa[i] = Vacant}

\* FixedSizeAllocator::alloc_untyped: a free cell, or 0 (None) when all
\* BLOCK_COUNT cells are in use.  Which free cell is handed out cannot be
\* observed through the buddy allocator; the lowest one is taken.
alloc_untyped(pa) ==
    IF FreeCells(pa) = {} THEN 0
    ELSE CHOOSE i \in FreeCells(pa) : \A j \in FreeCells(pa) : i <= j

\* FixedSizeAllocator::free_nonnull: Ok (TRUE) iff the cell was in use.
proto_free_ok(pa, cell) == cell \in 1..BLOCK_COUNT /\ pa[cell] # Vacant

proto_free_nonnull(pa, cell) ==
    IF proto_free_ok(pa, cell) THEN [pa EXCEPT ![cell] = Vacant] ELSE pa

\* FixedSizeAllocator::free_all
proto_free_all(pa) == [i \in 1..BLOCK_COUNT |-> Vacant]

\* ------------------------------------------------------------ BlockNode
RECURSIVE BlockNode_alloc_down(_, _, _, _)
RECURSIVE BlockNode_new_alloc(_, _, _, _)
RECURSIVE BlockNode_alloc(_, _, _)
RECURSIVE BlockNode_free(_, _, _)

\* Mutant of BlockNode_alloc_down: a request of exactly half the block is not
\* split down (>= where the code has >).
BlockNode_alloc_down_no_exact_half(block_address, block_size, alloc_size, pa) ==
    LET half_size == block_size \div 2 IN
    IF alloc_size >= half_size \/ block_size = B
    THEN [state |-> AllocatedLeaf, allocated |-> block_size,
          pa |-> pa, panic |-> FALSE]
    ELSE LET l == BlockNode_new_alloc(half_size, block_address, alloc_size, pa)
             left_ptr == alloc_untyped(l.pa)
             pa1 == IF left_ptr = 0 THEN l.pa
                    ELSE [l.pa EXCEPT ![left_ptr] = l.node]
             right_ptr == alloc_untyped(pa1)
             pa2 == IF right_ptr = 0 THEN pa1
                    ELSE [pa1 EXCEPT ![right_ptr] =
                            BlockNode_new(half_size, byte_add(block_address, half_size))]
         IN  IF l.panic
             THEN [state |-> FreeLeaf, allocated |-> 0, pa |-> l.pa, panic |-> TRUE]
             ELSE IF left_ptr = 0
             THEN [state |-> FreeLeaf, allocated |-> 0, pa |-> l.pa, panic |-> TRUE]
             ELSE IF right_ptr = 0
             THEN [state |-> FreeLeaf, allocated |-> 0, pa |-> pa1, panic |-> TRUE]
             ELSE [state |-> Parent(left_ptr, right_ptr),
                   allocated |-> l.allocated, pa |-> pa2, panic |-> FALSE]

\* Mutant of BlockNode::alloc_down: the right buddy is created with the size
\* of the block that is split.
BlockNode_alloc_down_right_whole(block_address, block_size, alloc_size, pa) ==
    LET half_size == block_size \div 2 IN
    IF alloc_size > half_size \/ block_size = B
    THEN [state |-> AllocatedLeaf, allocated |-> block_size,
          pa |-> pa, panic |-> FALSE]
    ELSE LET l == BlockNode_new_alloc(half_size, block_address, alloc_size, pa)
             left_ptr == alloc_untyped(l.pa)
             pa1 == IF left_ptr = 0 THEN l.pa
                    ELSE [l.pa EXCEPT ![left_ptr] = l.node]
             right_ptr == alloc_untyped(pa1)
             pa2 == IF right_ptr = 0 THEN pa1
                    ELSE [pa1 EXCEPT ![right_ptr] =
                            BlockNode_new(block_size, byte_add(block_address, half_size))]
         IN  IF l.panic
             THEN [state |-> FreeLeaf, allocated |-> 0, pa |-> l.pa, panic |-> TRUE]
             ELSE IF left_ptr = 0
             THEN [state |-> FreeLeaf, allocated |-> 0, pa |-> l.pa, panic |-> TRUE]
             ELSE IF right_ptr = 0
             THEN [state |-> FreeLeaf, allocated |-> 0, pa |-> pa1, panic |-> TRUE]
             ELSE [state |-> Parent(left_ptr, right_ptr),
                   allocated |-> l.allocated, pa |-> pa2, panic |-> FALSE]

\* BlockNode::alloc_down.  Returns the state the block gets, the bytes
\* committed, the node allocator afterwards, and whether an unwrap() of
\* alloc_untyped() failed on the way (cells taken before that stay taken).
BlockNode_alloc_down(block_address, block_size, alloc_size, pa) ==
    LET half_size == block_size \div 2 IN
    IF alloc_size > half_size \/ block_size = B
    THEN [state |-> AllocatedLeaf, allocated |-> block_size,
          pa |-> pa, panic |-> FALSE]
    ELSE LET l == BlockNode_new_alloc(half_size, block_address, alloc_size, pa)
             left_ptr == alloc_untyped(l.pa)
             pa1 == IF left_ptr = 0 THEN l.pa
                    ELSE [l.pa EXCEPT ![left_ptr] = l.node]
             right_ptr == alloc_untyped(pa1)
             pa2 == IF right_ptr = 0 THEN pa1
                    ELSE [pa1 EXCEPT ![right_ptr] =
                            BlockNode_new(half_size, byte_add(block_address, half_size))]
         IN  IF l.panic
             THEN [state |-> FreeLeaf, allocated |-> 0, pa |-> l.pa, panic |-> TRUE]
             ELSE IF left_ptr = 0
             THEN [state |-> FreeLeaf, allocated |-> 0, pa |-> l.pa, panic |-> TRUE]
             ELSE IF right_ptr = 0
             THEN [state |-> FreeLeaf, allocated |-> 0, pa |-> pa1, panic |-> TRUE]
             ELSE [state |-> Parent(left_ptr, right_ptr),
                   allocated |-> l.allocated, pa |-> pa2, panic |-> FALSE]

\* Mutant of BlockNode::new_alloc: the node is given the address behind its
\* block.
BlockNode_new_alloc_shifted(block_size, address, alloc_size, pa) ==
    LET d == BlockNode_alloc_down(address, block_size, alloc_size, pa) IN
    [node |-> [block_address |-> address + block_size, size |-> block_size,
               state |-> d.state],
     allocated |-> d.allocated, pa |-> d.pa, panic |-> d.panic]

\* BlockNode::new_alloc
BlockNode_new_alloc(block_size, address, alloc_size, pa) ==
    LET d == BlockNode_alloc_down(address, block_size, alloc_size, pa) IN
    [node |-> [block_address |-> address, size |-> block_size, state |-> d.state],
     allocated |-> d.allocated, pa |-> d.pa, panic |-> d.panic]

\* Option::None of BlockNode::alloc, after visiting `visits` nodes.
Miss(self, visits) ==
    [hit |-> FALSE, ptr |-> Null, allocated |-> 0, self |-> self,
     panic |-> FALSE, visits |-> visits]

\* Mutant of BlockNode::alloc: a Parent gives up as soon as its children are
\* no larger than the request.
BlockNode_alloc_prunes_exact_half(self, ref, alloc_size) ==
    LET node == NodeAt(self, ref) IN
    CASE node.state.tag = "FreeLeaf" ->
            IF node.size < alloc_size
            THEN Miss(self, 1)
            ELSE LET d == BlockNode_alloc_down(node.block_address, node.size,
                                               alloc_size, self.proto_allocator)
                     taken == [self EXCEPT !.proto_allocator = d.pa]
                 IN  IF d.panic
                     THEN [hit |-> FALSE, ptr |-> Null, allocated |-> 0,
                           self |-> taken, panic |-> TRUE, visits |-> 1]
                     ELSE [hit |-> TRUE, ptr |-> node.block_address,
                           allocated |-> d.allocated,
                           self |-> SetState(taken, ref, d.state),
                           panic |-> FALSE, visits |-> 1]
      [] node.state.tag = "Parent" ->
            IF node.size \div 2 <= alloc_size
            THEN Miss(self, 1)
            ELSE LET l == BlockNode_alloc(self, node.state.left, alloc_size) IN
                 IF l.hit \/ l.panic
                 THEN [l EXCEPT !.visits = @ + 1]
                 ELSE LET r == BlockNode_alloc(l.self, node.state.right, alloc_size)
                      IN  [r EXCEPT !.visits = @ + l.visits + 1]
      [] node.state.tag = "AllocatedLeaf" -> Miss(self, 1)

\* Mutant of BlockNode::alloc: a Parent asks its right child first.
BlockNode_alloc_right_first(self, ref, alloc_size) ==
    LET node == NodeAt(self, ref) IN
    CASE node.state.tag = "FreeLeaf" ->
            IF node.size < alloc_size
            THEN Miss(self, 1)
            ELSE LET d == BlockNode_alloc_down(node.block_address, node.size,
                                               alloc_size, self.proto_allocator)
                     taken == [self EXCEPT !.proto_allocator = d.pa]
                 IN  IF d.panic
                     THEN [hit |-> FALSE, ptr |-> Null, allocated |-> 0,
                           self |-> taken, panic |-> TRUE, visits |-> 1]
                     ELSE [hit |-> TRUE, ptr |-> node.block_address,
                           allocated |-> d.allocated,
                           self |-> SetState(taken, ref, d.state),
                           panic |-> FALSE, visits |-> 1]
      [] node.state.tag = "Parent" ->
            IF node.size <= alloc_size
            THEN Miss(self, 1)
            ELSE LET r == BlockNode_alloc(self, node.state.right, alloc_size) IN
                 IF r.hit \/ r.panic
                 THEN [r EXCEPT !.visits = @ + 1]
                 ELSE LET l == BlockNode_alloc(r.self, node.state.left, alloc_size)
                      IN  [l EXCEPT !.visits = @ + r.visits + 1]
      [] node.state.tag = "AllocatedLeaf" -> Miss(self, 1)

\* BlockNode::alloc on the node `ref` refers to.
BlockNode_alloc(self, ref, alloc_size) ==
    LET node == NodeAt(self, ref) IN
    CASE node.state.tag = "FreeLeaf" ->
            IF node.size < alloc_size
            THEN Miss(self, 1)
            ELSE LET d == BlockNode_alloc_down(node.block_address, node.size,
                                               alloc_size, self.proto_allocator)
                     taken == [self EXCEPT !.proto_allocator = d.pa]
                 IN  IF d.panic
                     THEN [hit |-> FALSE, ptr |-> Null, allocated |-> 0,
                           self |-> taken, panic |-> TRUE, visits |-> 1]
                     ELSE [hit |-> TRUE, ptr |-> node.block_address,
                           allocated |-> d.allocated,
                           self |-> SetState(taken, ref, d.state),
                           panic |-> FALSE, visits |-> 1]
      [] node.state.tag = "Parent" ->
            IF node.size <= alloc_size
            THEN Miss(self, 1)
            ELSE LET l == BlockNode_alloc(self, node.state.left, alloc_size) IN
                 IF l.hit \/ l.panic
                 THEN [l EXCEPT !.visits = @ + 1]
                 ELSE LET r == BlockNode_alloc(l.self, node.state.right, alloc_size)
                      IN  [r EXCEPT !.visits = @ + l.visits + 1]
      [] node.state.tag = "AllocatedLeaf" -> Miss(self, 1)

\* Mutant of FreeErr: every failure of BlockNode::free is an UnalignedFree.
FreeErr_unaligned(self, e, visits) ==
    [ok |-> FALSE, freed |-> 0, err |-> "UnalignedFree", self |-> self,
     panic |-> FALSE, visits |-> visits]

\* Err(e) of BlockNode::free, after visiting `visits` nodes.
FreeErr(self, e, visits) ==
    [ok |-> FALSE, freed |-> 0, err |-> e, self |-> self,
     panic |-> FALSE, visits |-> visits]

\* Mutant of Coalesce: the children are never merged.
Coalesce_never(self, ref, left, right) == [self |-> self, panic |-> FALSE]

\* Mutant of Coalesce: the children of the root are not merged.
Coalesce_not_at_root(self, ref, left, right) ==
    IF ref # 0
       /\ NodeAt(self, left).state.tag = "FreeLeaf"
       /\ NodeAt(self, right).state.tag = "FreeLeaf"
    THEN LET s1 == SetState(self, ref, FreeLeaf)
             ok1 == proto_free_ok(s1.proto_allocator, left)
             pa1 == proto_free_nonnull(s1.proto_allocator, left)
             ok2 == proto_free_ok(pa1, right)
             pa2 == proto_free_nonnull(pa1, right)
         IN  [self |-> [s1 EXCEPT !.proto_allocator = IF ok1 THEN pa2 ELSE pa1],
              panic |-> ~(ok1 /\ ok2)]
    ELSE [self |-> self, panic |-> FALSE]

\* Mutant of Coalesce: only the left child's cell goes back.
Coalesce_keeps_right(self, ref, left, right) ==
    IF NodeAt(self, left).state.tag = "FreeLeaf"
       /\ NodeAt(self, right).state.tag = "FreeLeaf"
    THEN LET s1 == SetState(self, ref, FreeLeaf)
             ok1 == proto_free_ok(s1.proto_allocator, left)
             pa1 == proto_free_nonnull(s1.proto_allocator, left)
         IN  [self |-> [s1 EXCEPT !.proto_allocator = pa1], panic |-> ~ok1]
    ELSE [self |-> self, panic |-> FALSE]

\* The coalescing step of BlockNode::free on a Parent whose child free
\* returned Ok: when both children are FreeLeaf the node becomes a FreeLeaf
\* and both cells go back to the node allocator (unwrap() of each result).
Coalesce(self, ref, left, right) ==
    IF NodeAt(self, left).state.tag = "FreeLeaf"
       /\ NodeAt(self, right).state.tag = "FreeLeaf"
    THEN LET s1 == SetState(self, ref, FreeLeaf)
             ok1 == proto_free_ok(s1.proto_allocator, left)
             pa1 == proto_free_nonnull(s1.proto_allocator, left)
             ok2 == proto_free_ok(pa1, right)
             pa2 == proto_free_nonnull(pa1, right)
         IN  [self |-> [s1 EXCEPT !.proto_allocator = IF ok1 THEN pa2 ELSE pa1],
              panic |-> ~(ok1 /\ ok2)]
    ELSE [self |-> self, panic |-> FALSE]

\* Mutant of GoesLeft: the right child's own start address is routed left.
GoesLeft_inclusive(ptr, right_node) == ptr <= right_node.block_address

\* BlockNode::free on a Parent: the pointer is looked for in the left child
\* iff it lies below the right child's block.
GoesLeft(ptr, right_node) == ptr < right_node.block_address

\* Mutant of BlockNode::free: a FreeLeaf that starts at the pointer is freed
\* once more.
BlockNode_free_accepts_free_leaf(self, ref, ptr) ==
    LET node == NodeAt(self, ref) IN
    CASE node.state.tag = "FreeLeaf" ->
            IF node.block_address = ptr
            THEN [ok |-> TRUE, freed |-> node.size, err |-> "",
                  self |-> self, panic |-> FALSE, visits |-> 1]
            ELSE FreeErr(self, "DoubleFree", 1)
      [] node.state.tag = "Parent" ->
            LET left == node.state.left
                right == node.state.right
                sub == IF GoesLeft(ptr, NodeAt(self, right))
                       THEN BlockNode_free(self, left, ptr)
                       ELSE BlockNode_free(self, right, ptr)
            IN  IF ~sub.ok \/ sub.panic
                THEN [sub EXCEPT !.visits = @ + 1]
                ELSE LET c == Coalesce(sub.self, ref, left, right) IN
                     [ok |-> ~c.panic, freed |-> sub.freed, err |-> "",
                      self |-> c.self, panic |-> c.panic,
                      visits |-> sub.visits + 1]
      [] node.state.tag = "AllocatedLeaf" ->
            IF node.block_address = ptr
            THEN [ok |-> TRUE, freed |-> node.size, err |-> "",
                  self |-> SetState(self, ref, FreeLeaf),
                  panic |-> FALSE, visits |-> 1]
            ELSE FreeErr(self, "UnalignedFree", 1)

\* Mutant of BlockNode::free: an AllocatedLeaf is freed without comparing its
\* address with the pointer.
BlockNode_free_any_address(self, ref, ptr) ==
    LET node == NodeAt(self, ref) IN
    CASE node.state.tag = "FreeLeaf" -> FreeErr(self, "DoubleFree", 1)
      [] node.state.tag = "Parent" ->
            LET left == node.state.left
                right == node.state.right
                sub == IF GoesLeft(ptr, NodeAt(self, right))
                       THEN BlockNode_free(self, left, ptr)
                       ELSE BlockNode_free(self, right, ptr)
            IN  IF ~sub.ok \/ sub.panic
                THEN [sub EXCEPT !.visits = @ + 1]
                ELSE LET c == Coalesce(sub.self, ref, left, right) IN
                     [ok |-> ~c.panic, freed |-> sub.freed, err |-> "",
                      self |-> c.self, panic |-> c.panic,
                      visits |-> sub.visits + 1]
      [] node.state.tag = "AllocatedLeaf" ->
            [ok |-> TRUE, freed |-> node.size, err |-> "",
             self |-> SetState(self, ref, FreeLeaf),
             panic |-> FALSE, visits |-> 1]

\* BlockNode::free on the node `ref` refers to.
BlockNode_free(self, ref, ptr) ==
    LET node == NodeAt(self, ref) IN
    CASE node.state.tag = "FreeLeaf" -> FreeErr(self, "DoubleFree", 1)
      [] node.state.tag = "Parent" ->
            LET left == node.state.left
                right == node.state.right
                sub == IF GoesLeft(ptr, NodeAt(self, right))
                       THEN BlockNode_free(self, left, ptr)
                       ELSE BlockNode_free(self, right, ptr)
            IN  IF ~sub.ok \/ sub.panic
                THEN [sub EXCEPT !.visits = @ + 1]
                ELSE LET c == Coalesce(sub.self, ref, left, right) IN
                     [ok |-> ~c.panic, freed |-> sub.freed, err |-> "",
                      self |-> c.self, panic |-> c.panic,
                      visits |-> sub.visits + 1]
      [] node.state.tag = "AllocatedLeaf" ->
            IF node.block_address = ptr
            THEN [ok |-> TRUE, freed |-> node.size, err |-> "",
                  self |-> SetState(self, ref, FreeLeaf),
                  panic |-> FALSE, visits |-> 1]
            ELSE FreeErr(self, "UnalignedFree", 1)

\* ------------------------------------------------------- BuddyAllocator
\* BuddyAllocator::total_free
get_total_free(self) == self.total_free

\* BuddyAllocator::heap_size
heap_size(self) == M

\* BuddyAllocator::total_allocated
total_allocated(self) == heap_size(self) - get_total_free(self)

\* What a call returns, together with the allocator it leaves behind.
\* res is "Ok", the error kind, or "Panic" when the call unwound.
Outcome(res, ptr, bytes, self, visits) ==
    [res |-> res, ptr |-> ptr, bytes |-> bytes, self |-> self, visits |-> visits]

\* Mutant of alloc_bytes: total_free goes down by the requested size, not by
\* the size of the block that was committed.
alloc_bytes_counts_request(self, size) ==
    IF size = 0
    THEN Outcome("ZeroAllocation", Null, 0, self, 0)
    ELSE IF size > get_total_free(self)
    THEN Outcome("OutOfMemory", Null, 0, self, 0)
    ELSE LET a == BlockNode_alloc(self, 0, size) IN
         IF a.panic
         THEN Outcome("Panic", Null, 0, a.self, a.visits)
         ELSE IF a.hit
         THEN Outcome("Ok", a.ptr, a.allocated,
                      [a.self EXCEPT !.total_free = @ - size], a.visits)
         ELSE Outcome("OutOfMemory", Null, 0, a.self, a.visits)

\* Mutant of alloc_bytes: a request of zero bytes is not rejected.
alloc_bytes_serves_zero(self, size) ==
    IF size > get_total_free(self)
    THEN Outcome("OutOfMemory", Null, 0, self, 0)
    ELSE LET a == BlockNode_alloc(self, 0, size) IN
         IF a.panic
         THEN Outcome("Panic", Null, 0, a.self, a.visits)
         ELSE IF a.hit
         THEN Outcome("Ok", a.ptr, a.allocated,
                      [a.self EXCEPT !.total_free = @ - a.allocated], a.visits)
         ELSE Outcome("OutOfMemory", Null, 0, a.self, a.visits)

\* Mutant of alloc_bytes: no early reject, the tree is always searched.
alloc_bytes_always_searches(self, size) ==
    IF size = 0
    THEN Outcome("ZeroAllocation", Null, 0, self, 0)
    ELSE LET a == BlockNode_alloc(self, 0, size) IN
         IF a.panic
         THEN Outcome("Panic", Null, 0, a.self, a.visits)
         ELSE IF a.hit
         THEN Outcome("Ok", a.ptr, a.allocated,
                      [a.self EXCEPT !.total_free = @ - a.allocated], a.visits)
         ELSE Outcome("OutOfMemory", Null, 0, a.self, a.visits)

\* Mutant of alloc_bytes: the request is charged to total_free before the
\* tree is searched, and not given back when the search misses.
alloc_bytes_charges_miss(self, size) ==
    IF size = 0
    THEN Outcome("ZeroAllocation", Null, 0, self, 0)
    ELSE IF size > get_total_free(self)
    THEN Outcome("OutOfMemory", Null, 0, self, 0)
    ELSE LET a == BlockNode_alloc(self, 0, size) IN
         IF a.panic
         THEN Outcome("Panic", Null, 0, a.self, a.visits)
         ELSE IF a.hit
         THEN Outcome("Ok", a.ptr, a.allocated,
                      [a.self EXCEPT !.total_free = @ - a.allocated], a.visits)
         ELSE Outcome("OutOfMemory", Null, 0,
                      [a.self EXCEPT !.total_free = @ - size], a.visits)

\* BuddyAllocator::alloc_bytes
alloc_bytes(self, size) ==
    IF size = 0
    THEN Outcome("ZeroAllocation", Null, 0, self, 0)
    ELSE IF size > get_total_free(self)
    THEN Outcome("OutOfMemory", Null, 0, self, 0)
    ELSE LET a == BlockNode_alloc(self, 0, size) IN
         IF a.panic
         THEN Outcome("Panic", Null, 0, a.self, a.visits)
         ELSE IF a.hit
         THEN Outcome("Ok", a.ptr, a.allocated,
                      [a.self EXCEPT !.total_free = @ - a.allocated], a.visits)
         ELSE Outcome("OutOfMemory", Null, 0, a.self, a.visits)

\* BuddyAllocator::alloc::<T>, T given by mem::size_of::<T>()
alloc(self, size_of_T) == alloc_bytes(self, size_of_T)

\* Mutant of free_nonnull: the freed bytes are not added to total_free.
free_nonnull_forgets_count(self, ptr) ==
    IF ptr >= self.upper_memory_bound \/ ptr < self.memory
    THEN Outcome("FreeOutOfBounds", Null, 0, self, 0)
    ELSE LET f == BlockNode_free(self, 0, ptr) IN
         IF f.panic
         THEN Outcome("Panic", Null, 0, f.self, f.visits)
         ELSE IF f.ok
         THEN Outcome("Ok", ptr, f.freed, f.self, f.visits)
         ELSE Outcome(f.err, Null, 0, f.self, f.visits)

\* Mutant of free_nonnull: only the upper bound of the arena is tested.
free_nonnull_upper_only(self, ptr) ==
    IF ptr >= self.upper_memory_bound
    THEN Outcome("FreeOutOfBounds", Null, 0, self, 0)
    ELSE LET f == BlockNode_free(self, 0, ptr) IN
         IF f.panic
         THEN Outcome("Panic", Null, 0, f.self, f.visits)
         ELSE IF f.ok
         THEN Outcome("Ok", ptr, f.freed,
                      [f.self EXCEPT !.total_free = @ + f.freed], f.visits)
         ELSE Outcome(f.err, Null, 0, f.self, f.visits)

\* BuddyAllocator::free_nonnull
free_nonnull(self, ptr) ==
    IF ptr >= self.upper_memory_bound \/ ptr < self.memory
    THEN Outcome("FreeOutOfBounds", Null, 0, self, 0)
    ELSE LET f == BlockNode_free(self, 0, ptr) IN
         IF f.panic
         THEN Outcome("Panic", Null, 0, f.self, f.visits)
         ELSE IF f.ok
         THEN Outcome("Ok", ptr, f.freed,
                      [f.self EXCEPT !.total_free = @ + f.freed], f.visits)
         ELSE Outcome(f.err, Null, 0, f.self, f.visits)

\* Mutant of free: the pointer is handed to free_nonnull without the null
\* test.
free_skips_null_test(self, ptr) == free_nonnull(self, ptr)

\* BuddyAllocator::free
free(self, ptr) ==
    IF ptr # Null
    THEN free_nonnull(self, ptr)
    ELSE Outcome("NullPtrFree", Null, 0, self, 0)

\* Mutant of free_all: the cells of the node allocator are not released.
free_all_keeps_cells(self) ==
    Outcome("Ok", Null, M - self.total_free,
            [self EXCEPT !.alloc_table = BlockNode_new(M, self.alloc_table.block_address),
                         !.total_free = M],
            0)

\* BuddyAllocator::free_all.  It returns nothing; the outcome notes how many
\* bytes were counted as allocated when it was called.
free_all(self) ==
    Outcome("Ok", Null, M - self.total_free,
            [self EXCEPT !.alloc_table = BlockNode_new(M, self.alloc_table.block_address),
                         !.total_free = M,
                         !.proto_allocator = proto_free_all(self.proto_allocator)],
            0)

\* ------------------------------------------------------------- the calls
\* The allocator fields after a call that left `self` behind.
Becomes(self) ==
    /\ memory' = self.memory
    /\ alloc_table' = self.alloc_table
    /\ proto_allocator' = self.proto_allocator
    /\ upper_memory_bound' = self.upper_memory_bound
    /\ total_free' = self.total_free

\* The record kept of a call.  chained: the call freed the pointer that the
\* call right before it had allocated.
Record(op, arg, r) ==
    [op |-> op, arg |-> arg, res |-> r.res, ptr |-> r.ptr, bytes |-> r.bytes,
     visits |-> r.visits,
     chained |-> /\ op \in {"free", "free_nonnull"}
                 /\ last.op \in {"alloc_bytes", "alloc"}
                 /\ last.res = "Ok"
                 /\ last.ptr = arg]

\* The callers' pointers: every <<pointer, block size>> a successful
\* allocation returned and no successful free has taken back, with the number
\* of times it is held.
NoneLive == [e \in {} |-> 1]

Issue(held, e) ==
    [x \in DOMAIN held \cup {e} |->
        IF x \in DOMAIN held THEN (IF x = e THEN held[x] + 1 ELSE held[x]) ELSE 1]

Return(held, ptr) == [x \in {e \in DOMAIN held : e[1] # ptr} |-> held[x]]

\* A caller allocates: on Ok it holds the pointer until it frees it.  A call
\* whose unwrap() panicked never returns (res = "Panic"): the cells it took
\* before the panic stay taken, the tree is as the unwinding left it, and
\* the allocator is not called again.
Allocates(op, size, r) ==
    /\ ~panicked
    /\ Becomes(r.self)
    /\ panicked' = (r.res = "Panic")
    /\ live' = IF r.res = "Ok" THEN Issue(live, <<r.ptr, r.bytes>>) ELSE live
    /\ last' = Record(op, size, r)

\* A caller frees: on Ok it no longer holds the pointer.
Frees(op, ptr, r) ==
    /\ ~panicked
    /\ Becomes(r.self)
    /\ panicked' = (r.res = "Panic")
    /\ live' = IF r.res = "Ok" THEN Return(live, ptr) ELSE live
    /\ last' = Record(op, ptr, r)

AllocBytes(size) == Allocates("alloc_bytes", size, alloc_bytes(Self, size))

Alloc(size_of_T) == Allocates("alloc", size_of_T, alloc(Self, size_of_T))

FreeNonnull(ptr) == Frees("free_nonnull", ptr, free_nonnull(Self, ptr))

Free(ptr) == Frees("free", ptr, free(Self, ptr))

\* free_all invalidates every pointer issued so far.
FreeAll ==
    /\ ~panicked
    /\ Becomes(free_all(Self).self)
    /\ panicked' = FALSE
    /\ live' = NoneLive
    /\ last' = Record("free_all", 0, free_all(Self))

\* BuddyAllocator::new: the state once construction has finished.
Init ==
    /\ memory = ArenaBase
    /\ alloc_table = BlockNode_new(M, memory)
    /\ upper_memory_bound = byte_add(memory, M)
    /\ proto_allocator = [i \in 1..BLOCK_COUNT |-> Vacant]
    /\ total_free = M
    /\ panicked = FALSE
    /\ live = NoneLive
    /\ last = [op |-> "new", arg |-> 0, res |-> "Ok", ptr |-> Null, bytes |-> 0,
               visits |-> 0, chained |-> FALSE]

Next ==
    \/ \E size \in Sizes : AllocBytes(size)
    \/ \E size_of_T \in TypeSizes : Alloc(size_of_T)
    \/ \E ptr \in Pointers \ {Null} : FreeNonnull(ptr)
    \/ \E ptr \in Pointers : Free(ptr)
    \/ FreeAll

Spec == Init /\ [][Next]_vars

\* --------------------------------------------------------- construction
\* NonNull::<u8>::dangling(): the alignment of u8, taken as an address.
Dangling == 1

\* Where the allocator object, and with it the arena, can come to lie.
Places == {ArenaBase - 1, ArenaBase, ArenaBase + 1}

\* MaybeUninit::uninit().assume_init() of a BlockNode: whatever the bytes
\* happen to hold.
Uninit ==
    {[block_address |-> a, size |-> s, state |-> st] :
        a \in 0..ArenaBase, s \in {0, B, M},
        st \in {FreeLeaf, AllocatedLeaf, Parent(1, 2)}}

\* BuddyAllocator::new_unpinned, with the object lying at `at` and `junk` in
\* the uninitialized alloc_table.  zero_initialized decides what the bytes of
\* the arena hold; no method reads them.
new_unpinned(zero_initialized, at, junk) ==
    [memory |-> at, alloc_table |-> junk,
     proto_allocator |-> [i \in 1..BLOCK_COUNT |-> Vacant],
     upper_memory_bound |-> Dangling, total_free |-> M]

\* Mutant of init_pinned: the upper bound is left as new_unpinned set it.
init_pinned_keeps_bound(self) ==
    [self EXCEPT !.alloc_table = BlockNode_new(M, self.memory)]

\* BuddyAllocator::init_pinned
init_pinned(self) ==
    [self EXCEPT !.alloc_table = BlockNode_new(M, self.memory),
                 !.upper_memory_bound = byte_add(self.memory, M)]

\* BuddyAllocator::new, with the Box lying at `at`.
new(zero_initialized, at) ==
    [memory |-> at, alloc_table |-> BlockNode_new(M, at),
     proto_allocator |-> [i \in 1..BLOCK_COUNT |-> Vacant],
     upper_memory_bound |-> byte_add(at, M), total_free |-> M]

\* The record of a construction step.
Built(op) ==
    [op |-> op, arg |-> 0, res |-> "Ok", ptr |-> Null, bytes |-> 0,
     visits |-> 0, chained |-> FALSE]

\* The value new_unpinned returned is moved to the place where it is going
\* to be pinned.
Place(at) ==
    /\ last.op = "new_unpinned"
    /\ at # memory
    /\ memory' = at
    /\ UNCHANGED <<alloc_table, proto_allocator, upper_memory_bound, total_free,
                   panicked, live, last>>

InitPinned ==
    /\ last.op = "new_unpinned"
    /\ Becomes(init_pinned(Self))
    /\ last' = Built("init_pinned")
    /\ UNCHANGED <<panicked, live>>

\* The allocator fields are those of `self`.
Starts(self) ==
    /\ memory = self.memory
    /\ alloc_table = self.alloc_table
    /\ proto_allocator = self.proto_allocator
    /\ upper_memory_bound = self.upper_memory_bound
    /\ total_free = self.total_free

\* An allocator comes out of new, or out of new_unpinned.
BuildInit ==
    /\ \E zero_initialized \in BOOLEAN, at \in Places, junk \in Uninit :
           \/ /\ Starts(new(zero_initialized, at))
              /\ last = Built("new")
           \/ /\ Starts(new_unpinned(zero_initialized, at, junk))
              /\ last = Built("new_unpinned")
    /\ panicked = FALSE
    /\ live = NoneLive

BuildNext ==
    \/ \E at \in Places : Place(at)
    \/ InitPinned

BuildSpec == BuildInit /\ [][BuildNext]_vars

\* ----------------------------------- lib.rs: the allocator on Box nodes
\* lib.rs holds a second BuddyAllocator whose Parent nodes own their children
\* as Box<BlockNode>: a node is a value that contains its children, there is
\* no node allocator, and one error enum serves alloc and free.

\* BlockNode::new (lib.rs)
lib_BlockNode_new(size, address) ==
    [block_address |-> address, size |-> size, state |-> FreeLeaf]

RECURSIVE lib_BlockNode_alloc_down(_, _, _)
RECURSIVE lib_BlockNode_new_alloc(_, _, _)
RECURSIVE lib_BlockNode_alloc(_, _)
RECURSIVE lib_BlockNode_free(_, _)

\* BlockNode::alloc_down (lib.rs): (state, allocated)
lib_BlockNode_alloc_down(block_address, block_size, alloc_size) ==
    LET half_size == block_size \div 2 IN
    IF alloc_size > half_size \/ block_size = B
    THEN [state |-> AllocatedLeaf, allocated |-> block_size]
    ELSE LET l == lib_BlockNode_new_alloc(half_size, block_address, alloc_size) IN
         [state |-> Parent(l.node,
                           lib_BlockNode_new(half_size, byte_add(block_address, half_size))),
          allocated |-> l.allocated]

\* BlockNode::new_alloc (lib.rs): (node, allocated)
lib_BlockNode_new_alloc(block_size, address, alloc_size) ==
    LET d == lib_BlockNode_alloc_down(address, block_size, alloc_size) IN
    [node |-> [block_address |-> address, size |-> block_size, state |-> d.state],
     allocated |-> d.allocated]

\* None, with the node as it was.
lib_Miss(node, visits) ==
    [hit |-> FALSE, ptr |-> Null, allocated |-> 0, node |-> node, visits |-> visits]

\* BlockNode::alloc (lib.rs): Some((ptr, allocated)) and the node afterwards.
lib_BlockNode_alloc(node, alloc_size) ==
    CASE node.state.tag = "FreeLeaf" ->
            IF node.size < alloc_size
            THEN lib_Miss(node, 1)
            ELSE LET d == lib_BlockNode_alloc_down(node.block_address, node.size,
                                                   alloc_size) IN
                 [hit |-> TRUE, ptr |-> node.block_address,
                  allocated |-> d.allocated,
                  node |-> [node EXCEPT !.state = d.state], visits |-> 1]
      [] node.state.tag = "Parent" ->
            IF node.size <= alloc_size
            THEN lib_Miss(node, 1)
            ELSE LET l == lib_BlockNode_alloc(node.state.left, alloc_size) IN
                 IF l.hit
                 THEN [l EXCEPT !.node = [node EXCEPT !.state.left = l.node],
                                !.visits = @ + 1]
                 ELSE LET r == lib_BlockNode_alloc(node.state.right, alloc_size) IN
                      IF r.hit
                      THEN [r EXCEPT !.node = [node EXCEPT !.state.right = r.node],
                                     !.visits = @ + l.visits + 1]
                      ELSE lib_Miss(node, l.visits + r.visits + 1)
      [] node.state.tag = "AllocatedLeaf" -> lib_Miss(node, 1)

\* Err(e), with the node as it was.
lib_FreeErr(node, e, visits) ==
    [ok |-> FALSE, freed |-> 0, err |-> e, node |-> node, visits |-> visits]

\* BlockNode::free (lib.rs): Ok(freed) or Err(err), and the node afterwards.
lib_BlockNode_free(node, ptr) ==
    CASE node.state.tag = "FreeLeaf" -> lib_FreeErr(node, "DoubleFree", 1)
      [] node.state.tag = "Parent" ->
            LET left == node.state.left
                right == node.state.right
                goes_left == ptr < right.block_address
                sub == IF goes_left
                       THEN lib_BlockNode_free(left, ptr)
                       ELSE lib_BlockNode_free(right, ptr)
                new_left == IF goes_left THEN sub.node ELSE left
                new_right == IF goes_left THEN right ELSE sub.node
            IN  IF ~sub.ok
                THEN lib_FreeErr(node, sub.err, sub.visits + 1)
                ELSE [ok |-> TRUE, freed |-> sub.freed, err |-> "",
                      node |-> IF new_left.state = FreeLeaf /\ new_right.state = FreeLeaf
                               THEN [node EXCEPT !.state = FreeLeaf]
                               ELSE [node EXCEPT !.state = Parent(new_left, new_right)],
                      visits |-> sub.visits + 1]
      [] node.state.tag = "AllocatedLeaf" ->
            IF node.block_address = ptr
            THEN [ok |-> TRUE, freed |-> node.size, err |-> "",
                  node |-> [node EXCEPT !.state = FreeLeaf], visits |-> 1]
            ELSE lib_FreeErr(node, "UnalignedFree", 1)

\* The allocator object of lib.rs.
LibSelf ==
    [memory |-> memory, alloc_table |-> alloc_table,
     upper_memory_bound |-> upper_memory_bound, total_free |-> total_free]

\* BuddyAllocator::total_free (lib.rs)
lib_total_free(self) == self.total_free

\* BuddyAllocator::alloc_bytes (lib.rs)
lib_alloc_bytes(self, size) ==
    IF size = 0
    THEN Outcome("ZeroAllocation", Null, 0, self, 0)
    ELSE IF size > lib_total_free(self)
    THEN Outcome("OutOfMemory", Null, 0, self, 0)
    ELSE LET a == lib_BlockNode_alloc(self.alloc_table, size) IN
         IF a.hit
         THEN Outcome("Ok", a.ptr, a.allocated,
                      [self EXCEPT !.alloc_table = a.node,
                                   !.total_free = @ - a.allocated], a.visits)
         ELSE Outcome("OutOfMemory", Null, 0, self, a.visits)

\* BuddyAllocator::alloc::<T> (lib.rs), T given by mem::size_of::<T>()
lib_alloc(self, size_of_T) == lib_alloc_bytes(self, size_of_T)

\* Mutant of free_nonnull (lib.rs): the freed bytes are not added back.
lib_free_nonnull_forgets_count(self, ptr) ==
    IF ptr >= self.upper_memory_bound
    THEN Outcome("FreeOutOfBounds", Null, 0, self, 0)
    ELSE LET f == lib_BlockNode_free(self.alloc_table, ptr) IN
         IF f.ok
         THEN Outcome("Ok", ptr, f.freed,
                      [self EXCEPT !.alloc_table = f.node], f.visits)
         ELSE Outcome(f.err, Null, 0, self, f.visits)

\* BuddyAllocator::free_nonnull (lib.rs)
lib_free_nonnull(self, ptr) ==
    IF ptr >= self.upper_memory_bound
    THEN Outcome("FreeOutOfBounds", Null, 0, self, 0)
    ELSE LET f == lib_BlockNode_free(self.alloc_table, ptr) IN
         IF f.ok
         THEN Outcome("Ok", ptr, f.freed,
                      [self EXCEPT !.alloc_table = f.node,
                                   !.total_free = @ + f.freed], f.visits)
         ELSE Outcome(f.err, Null, 0, self, f.visits)

\* BuddyAllocator::free (lib.rs)
lib_free(self, ptr) ==
    IF ptr # Null
    THEN lib_free_nonnull(self, ptr)
    ELSE Outcome("NullPtrFree", Null, 0, self, 0)

\* BuddyAllocator::free_all (lib.rs)
lib_free_all(self) ==
    Outcome("Ok", Null, 0,
            [self EXCEPT !.alloc_table = lib_BlockNode_new(M, self.alloc_table.block_address),
                         !.total_free = M],
            0)

\* The allocator fields after a call that left `self` behind; lib.rs has no
\* node allocator and no unwrap().
LibBecomes(self) ==
    /\ memory' = self.memory
    /\ alloc_table' = self.alloc_table
    /\ upper_memory_bound' = self.upper_memory_bound
    /\ total_free' = self.total_free
    /\ UNCHANGED <<proto_allocator, panicked>>

\* The pointers a caller passes to the allocator of lib.rs: null, addresses
\* below the block of the root, inside it, and the two above it.
LibPointers == 0..(alloc_table.block_address + M + 1)

LibAllocBytes(size) ==
    \E r \in {lib_alloc_bytes(LibSelf, size)} :
        /\ LibBecomes(r.self)
        /\ live' = IF r.res = "Ok" THEN Issue(live, <<r.ptr, r.bytes>>) ELSE live
        /\ last' = Record("alloc_bytes", size, r)

LibAlloc(size_of_T) ==
    \E r \in {lib_alloc(LibSelf, size_of_T)} :
        /\ LibBecomes(r.self)
        /\ live' = IF r.res = "Ok" THEN Issue(live, <<r.ptr, r.bytes>>) ELSE live
        /\ last' = Record("alloc", size_of_T, r)

LibFreeNonnull(ptr) ==
    \E r \in {lib_free_nonnull(LibSelf, ptr)} :
        /\ LibBecomes(r.self)
        /\ live' = IF r.res = "Ok" THEN Return(live, ptr) ELSE live
        /\ last' = Record("free_nonnull", ptr, r)

LibFree(ptr) ==
    \E r \in {lib_free(LibSelf, ptr)} :
        /\ LibBecomes(r.self)
        /\ live' = IF r.res = "Ok" THEN Return(live, ptr) ELSE live
        /\ last' = Record("free", ptr, r)

LibFreeAll ==
    \E r \in {lib_free_all(LibSelf)} :
        /\ LibBecomes(r.self)
        /\ live' = NoneLive
        /\ last' = Record("free_all", 0, r)

\* BuddyAllocator::new (lib.rs).  The tree and the upper bound are computed
\* from the address of res.memory, and then res is returned by value: the
\* build may construct it in the caller's slot (the arena stays where it
\* was) or copy it there (the arena is elsewhere, and the addresses in the
\* tree and the upper bound are those of the dead local).
LibInit ==
    /\ memory \in {ArenaBase, ArenaBase - 1}
    /\ alloc_table = lib_BlockNode_new(M, ArenaBase)
    /\ upper_memory_bound = byte_add(ArenaBase, M)
    /\ proto_allocator = <<>>
    /\ total_free = M
    /\ panicked = FALSE
    /\ live = NoneLive
    /\ last = [op |-> "new", arg |-> 0, res |-> "Ok", ptr |-> Null, bytes |-> 0,
               visits |-> 0, chained |-> FALSE]

LibNext ==
    \/ \E size \in Sizes : LibAllocBytes(size)
    \/ \E size_of_T \in TypeSizes : LibAlloc(size_of_T)
    \/ \E ptr \in LibPointers \ {Null} : LibFreeNonnull(ptr)
    \/ \E ptr \in LibPointers : LibFree(ptr)
    \/ LibFreeAll

LibSpec == LibInit /\ [][LibNext]_vars

\* ------------------------------------------------- reading the tree
\* References of the nodes of the subtree at `ref`.
RECURSIVE Subtree(_, _)
Subtree(self, ref) ==
    LET node == NodeAt(self, ref) IN
    IF node.state.tag = "Parent"
    THEN {ref} \cup Subtree(self, node.state.left) \cup Subtree(self, node.state.right)
    ELSE {ref}

\* <<address, size>> of the blocks whose node is in state `tag`.
Blocks(self, tag) ==
    {<<NodeAt(self, r).block_address, NodeAt(self, r).size>> :
        r \in {x \in Subtree(self, 0) : NodeAt(self, x).state.tag = tag}}

\* Every node of the tree as <<address, size, state>>.
Shape(self) ==
    {<<NodeAt(self, r).block_address, NodeAt(self, r).size, NodeAt(self, r).state.tag>> :
        r \in Subtree(self, 0)}

CellsInUse(self) == (1..BLOCK_COUNT) \ FreeCells(self.proto_allocator)

RECURSIVE SumOfSizes(_)
SumOfSizes(blocks) ==
    IF blocks = {} THEN 0
    ELSE LET b == CHOOSE x \in blocks : TRUE IN b[2] + SumOfSizes(blocks \ {b})

\* The block sizes there are: B, 2B, 4B, ..., M.
BlockSizes == {B * Pow2(k) : k \in 0..Order}

\* The smallest block size that holds `size` bytes (size <= M).
RoundedSize(size) ==
    CHOOSE b \in BlockSizes : b >= size /\ \A c \in BlockSizes : c >= size => b <= c

IsAlloc(op) == op \in {"alloc_bytes", "alloc"}

IsFree(op) == op \in {"free", "free_nonnull"}

Overlap(e1, e2) == e1[1] < e2[1] + e2[2] /\ e2[1] < e1[1] + e1[2]

\* ------------------------------------------------------------- claims

\* C1: any two pointers that are live at the same time denote byte ranges
\* [p, p + block size) that are disjoint and lie inside [base, base + M)
\* (and no pointer is issued while it is still live).
C1_LiveBlocksDisjoint ==
    \A e1 \in DOMAIN live :
        /\ live[e1] = 1
        /\ memory <= e1[1]
        /\ e1[1] + e1[2] <= memory + M
        /\ \A e2 \in DOMAIN live : e1 # e2 => ~Overlap(e1, e2)

\* Three pointers are live at once.
C1_Witness == Cardinality(DOMAIN live) >= 3

\* C2: the node allocator, with its M / B cells, is never exhausted: no
\* allocation ends in the failed unwrap() of alloc_untyped().
C2_SlabNeverExhausted == IsAlloc(last.op) => last.res # "Panic"

\* C3, the step: a successful allocation of `size` bytes marks exactly one
\* block as allocated, the block has the smallest block size >= size, and
\* total_free goes down by exactly that block size.
C3_AllocStep ==
    (IsAlloc(last'.op) /\ last'.res = "Ok") =>
        /\ last'.bytes = RoundedSize(last'.arg)
        /\ last'.arg <= B => last'.bytes = B
        /\ last'.arg > B => last'.arg <= last'.bytes /\ last'.bytes < 2 * last'.arg
        /\ <<last'.ptr, last'.bytes>> \notin Blocks(Self, "AllocatedLeaf")
        /\ Blocks(Self', "AllocatedLeaf") =
               Blocks(Self, "AllocatedLeaf") \cup {<<last'.ptr, last'.bytes>>}
        /\ total_free' = total_free - last'.bytes

\* C3, the sum: M - total_free is the sum of the block sizes of the
\* allocations that are live.
C3_AllocatedSum == M - total_free = SumOfSizes(DOMAIN live)

\* C3: both of the above, in every step and every state.
C3_RoundedBlockConsumed == [][C3_AllocStep]_vars /\ []C3_AllocatedSum

\* A request above B that is not a block size was served, while another
\* allocation was live.
C3_Witness ==
    /\ IsAlloc(last.op) /\ last.res = "Ok"
    /\ last.arg > B /\ last.bytes > last.arg
    /\ Cardinality(DOMAIN live) >= 2

\* C4: total_free is the sum of the sizes of the FreeLeaf nodes, so
\* 0 <= total_free <= M and total_allocated + total_free = heap_size.
C4_TotalFreeIsFreeLeafSum ==
    /\ total_free = SumOfSizes(Blocks(Self, "FreeLeaf"))
    /\ 0 <= total_free /\ total_free <= M
    /\ total_allocated(Self) >= 0
    /\ total_allocated(Self) + get_total_free(Self) = heap_size(Self)

\* A failed free left a tree with free blocks of two sizes and a live block.
C4_Witness ==
    /\ IsFree(last.op) /\ last.res = "UnalignedFree"
    /\ Cardinality({b[2] : b \in Blocks(Self, "FreeLeaf")}) >= 2
    /\ DOMAIN live # {}

\* C5: once every issued pointer has been freed, the tree is a single
\* FreeLeaf root of size M, total_free = heap_size, and alloc_bytes(M)
\* succeeds.
C5_AllFreedRestoresRoot ==
    (DOMAIN live = {} /\ ~panicked) =>
        /\ alloc_table = BlockNode_new(M, memory)
        /\ Shape(Self) = {<<memory, M, "FreeLeaf">>}
        /\ total_free = heap_size(Self)
        /\ alloc_bytes(Self, M).res = "Ok"

\* The last of several pointers was freed, not in the reverse order of
\* allocation, and the free coalesced all the way up to the root.
C5_Witness ==
    /\ DOMAIN live = {}
    /\ IsFree(last.op) /\ last.res = "Ok" /\ ~last.chained
    /\ last.visits = Order + 1
    /\ last.ptr # memory

\* C6, the step: right after a successful allocation, free and free_nonnull
\* of the returned pointer return Ok and bring back the total_free and the
\* tree (every node's address, size and state) of before the allocation.
C6_AllocThenFree ==
    (IsAlloc(last'.op) /\ last'.res = "Ok") =>
        \A r \in {free(Self', last'.ptr), free_nonnull(Self', last'.ptr)} :
            /\ r.res = "Ok"
            /\ r.bytes = last'.bytes
            /\ r.self.total_free = total_free
            /\ Shape(r.self) = Shape(Self)

\* C6: the above in every step, and every free that a caller did issue right
\* after the allocation of its pointer succeeded.
C6_FreeRightAfterAllocRestores ==
    [][C6_AllocThenFree]_vars /\ [](last.chained => last.res = "Ok")

\* A pointer was freed right after its allocation, which had split a block
\* while another allocation was live.
C6_Witness ==
    /\ last.chained /\ last.res = "Ok"
    /\ last.bytes < M \div 2
    /\ DOMAIN live # {}

\* C7: every live pointer can be freed, whatever happened since it was
\* issued: free returns Ok, turns exactly the AllocatedLeaf starting at the
\* pointer into free space, adds exactly its size to total_free, and every
\* other allocated block stays allocated.
C7_LivePointerFreeable ==
    \A e \in DOMAIN live :
        LET r == free(Self, e[1]) IN
        /\ r.res = "Ok"
        /\ r.bytes = e[2]
        /\ r.self.total_free = total_free + e[2]
        /\ e \in Blocks(Self, "AllocatedLeaf")
        /\ Blocks(r.self, "AllocatedLeaf") = Blocks(Self, "AllocatedLeaf") \ {e}
        /\ SumOfSizes(Blocks(r.self, "FreeLeaf")) =
               SumOfSizes(Blocks(Self, "FreeLeaf")) + e[2]

\* A pointer in the right half of the arena was freed, not right after its
\* allocation, while two other pointers stayed live.
C7_Witness ==
    /\ IsFree(last.op) /\ last.res = "Ok" /\ ~last.chained
    /\ last.ptr >= memory + M \div 2
    /\ Cardinality(DOMAIN live) >= 2

\* C8: alloc_bytes(0), and alloc::<T>() for a zero-sized T, return
\* ZeroAllocation in every state, a full arena included.
C8_ZeroAllocation ==
    /\ alloc_bytes(Self, 0).res = "ZeroAllocation"
    /\ alloc(Self, 0).res = "ZeroAllocation"
    /\ (IsAlloc(last.op) /\ last.arg = 0) => last.res = "ZeroAllocation"

\* alloc_bytes(0) was called on a completely full arena.
C8_Witness ==
    /\ last.op = "alloc_bytes" /\ last.arg = 0 /\ last.res = "ZeroAllocation"
    /\ total_free = 0

\* C9: alloc_bytes(size) with size > total_free returns OutOfMemory and
\* neither visits a node of the tree nor changes anything.
C9_EarlyOutOfMemory ==
    /\ \A size \in Sizes :
           size > total_free =>
               LET r == alloc_bytes(Self, size) IN
               /\ r.res = "OutOfMemory"
               /\ r.visits = 0
               /\ r.self = Self
    /\ (IsAlloc(last.op) /\ last.arg > total_free /\ last.res # "Ok") =>
           last.res = "OutOfMemory" /\ last.visits = 0

\* A request no larger than the arena, but larger than what is free, was
\* turned down.
C9_Witness ==
    /\ last.op = "alloc_bytes" /\ last.res = "OutOfMemory"
    /\ last.arg > total_free /\ last.arg <= M
    /\ total_free > 0

\* C10: alloc_bytes(size) with 0 < size <= total_free succeeds iff some
\* FreeLeaf has a block of at least `size` bytes, and returns OutOfMemory
\* exactly when there is none.
C10_SucceedsIffFreeLeafFits ==
    \A size \in 1..total_free :
        LET r == alloc_bytes(Self, size)
            fits == \E b \in Blocks(Self, "FreeLeaf") : b[2] >= size
        IN  /\ r.res = "Ok" <=> fits
            /\ r.res = "OutOfMemory" <=> ~fits

\* The error kinds: AllocError and FreeError.
Errors == {"ZeroAllocation", "OutOfMemory", "NullPtrFree", "FreeOutOfBounds",
           "DoubleFree", "UnalignedFree"}

\* C11, the step: a call of alloc_bytes, alloc, free or free_nonnull that
\* returns an error changes nothing: total_free, the live pointers, every
\* node of the tree and the cells of the node allocator are as before.
C11_ErrorStep ==
    ((IsAlloc(last'.op) \/ IsFree(last'.op)) /\ last'.res \in Errors) =>
        UNCHANGED <<memory, alloc_table, proto_allocator, upper_memory_bound,
                    total_free, live, panicked>>

\* C11: every call that returns an error leaves the whole state unchanged.
C11_ErrorsChangeNothing == [][C11_ErrorStep]_vars

\* A request that total_free covers found no block large enough after the
\* tree had been searched: the free bytes are in two blocks.
C11_Witness ==
    /\ last.op = "alloc_bytes" /\ last.res = "OutOfMemory"
    /\ last.arg <= total_free /\ last.visits >= 3
    /\ Cardinality(Blocks(Self, "FreeLeaf")) >= 2
    /\ DOMAIN live # {}

\* C12: free(null) returns NullPtrFree in every state, without a bounds
\* test, a visit of the tree or a change; for every non-null pointer free
\* returns what free_nonnull returns and leaves the same allocator behind.
C12_FreeNullThenDelegates ==
    /\ free(Self, Null) = Outcome("NullPtrFree", Null, 0, Self, 0)
    /\ (last.op = "free" /\ last.arg = Null) =>
           last.res = "NullPtrFree" /\ last.visits = 0
    /\ \A ptr \in Pointers \ {Null} : free(Self, ptr) = free_nonnull(Self, ptr)

\* free(null) was called while the tree was split and a pointer was live.
C12_Witness ==
    /\ last.op = "free" /\ last.arg = Null /\ last.res = "NullPtrFree"
    /\ alloc_table.state.tag = "Parent"
    /\ DOMAIN live # {}

\* The pointer lies in the arena [base, base + M).
InBounds(ptr) == memory <= ptr /\ ptr < memory + M

\* C13: free and free_nonnull of a non-null pointer below base or at or
\* above base + M return FreeOutOfBounds without visiting a node of the
\* tree; every pointer inside [base, base + M) is looked for in the tree.
C13_OutOfBoundsBeforeTree ==
    (IsFree(last.op) /\ last.arg # Null) =>
        IF InBounds(last.arg)
        THEN last.visits >= 1 /\ last.res # "FreeOutOfBounds"
        ELSE last.visits = 0 /\ last.res = "FreeOutOfBounds"

\* A non-null pointer below the arena was freed while the tree was split and
\* a pointer was live.
C13_Witness ==
    /\ IsFree(last.op) /\ last.res = "FreeOutOfBounds"
    /\ last.arg # Null /\ last.arg < memory
    /\ alloc_table.state.tag = "Parent"
    /\ DOMAIN live # {}

\* The base address the allocator of lib.rs works with: base_ptr of new,
\* kept as the block address of the root.
LibBase == alloc_table.block_address

\* C14: in the allocator of lib.rs, free and free_nonnull of a non-null
\* pointer below base or at or above base + M return FreeOutOfBounds.
C14_BoxOutOfBounds ==
    (IsFree(last.op) /\ last.arg # Null
        /\ (last.arg < LibBase \/ last.arg >= LibBase + M)) =>
        last.res = "FreeOutOfBounds"

\* The addresses that lie in a leaf block in state `tag`.
BytesIn(self, tag) == UNION {b[1]..(b[1] + b[2] - 1) : b \in Blocks(self, tag)}

\* C15, in a state: free and free_nonnull of a pointer inside a FreeLeaf
\* block return DoubleFree, and right after a successful free the freed
\* pointer lies in a FreeLeaf block.
C15_FreeLeafIsDoubleFree ==
    /\ \A p \in BytesIn(Self, "FreeLeaf") :
           /\ free(Self, p).res = "DoubleFree"
           /\ free_nonnull(Self, p).res = "DoubleFree"
    /\ (IsFree(last.op) /\ last.res = "Ok") => last.ptr \in BytesIn(Self, "FreeLeaf")
    /\ last.op = "new" => BytesIn(Self, "FreeLeaf") = memory..(memory + M - 1)

\* C15, the step: only a successful allocation takes an address out of the
\* FreeLeaf blocks, so a pointer that was freed stays in one until then.
C15_StaysFree ==
    (~IsAlloc(last'.op) /\ last'.res \notin Errors) =>
        BytesIn(Self, "FreeLeaf") \subseteq BytesIn(Self', "FreeLeaf")

\* C15: free of a pointer whose leaf is a FreeLeaf returns DoubleFree; so
\* does a second free of a freed pointer before the next successful
\* allocation, and any free of an address of a fresh arena.
C15_DoubleFree == [][C15_StaysFree]_vars /\ []C15_FreeLeafIsDoubleFree

\* The start of a free block inside a split tree was freed and the call
\* returned DoubleFree, while another pointer was live.
C15_Witness ==
    /\ IsFree(last.op) /\ last.res = "DoubleFree"
    /\ \E b \in Blocks(Self, "FreeLeaf") : b[1] = last.arg /\ b[2] < M
    /\ DOMAIN live # {}

\* The addresses inside a leaf block in state `tag`, its start excluded.
Interior(self, tag) ==
    UNION {(b[1] + 1)..(b[1] + b[2] - 1) : b \in Blocks(self, tag)}

\* C16: free and free_nonnull of a pointer that lies inside an allocated
\* block, but is not its start address, return UnalignedFree and change
\* nothing: the block stays allocated.
C16_InteriorOfAllocated ==
    /\ \A p \in Interior(Self, "AllocatedLeaf") :
           \A r \in {free(Self, p), free_nonnull(Self, p)} :
               /\ r.res = "UnalignedFree"
               /\ r.self = Self
    /\ (IsFree(last.op) /\ last.arg \in Interior(Self, "AllocatedLeaf")) =>
           /\ last.res = "UnalignedFree"
           /\ \E e \in DOMAIN live : e[1] < last.arg /\ last.arg < e[1] + e[2]

\* The last byte of a live block of more than B bytes was freed, while
\* another pointer was live.
C16_Witness ==
    /\ IsFree(last.op) /\ last.res = "UnalignedFree"
    /\ \E e \in DOMAIN live :
           e[2] > B /\ last.arg = e[1] + e[2] - 1 /\ e \in Blocks(Self, "AllocatedLeaf")
    /\ Cardinality(DOMAIN live) >= 2

\* C17: free and free_nonnull of a pointer of the arena that is not the
\* start address of a leaf block, whether the block around it is allocated
\* or free, return UnalignedFree.
C17_InteriorIsUnaligned ==
    \A p \in Interior(Self, "AllocatedLeaf") \cup Interior(Self, "FreeLeaf") :
        /\ free(Self, p).res = "UnalignedFree"
        /\ free_nonnull(Self, p).res = "UnalignedFree"

\* C18: in every state free_all leaves a tree that is one FreeLeaf of M
\* bytes at the arena base, total_free = M and no cell of the node allocator
\* in use; after it alloc_bytes(M) succeeds, and free of any address of the
\* arena, so of any pointer issued before, returns DoubleFree.
C18_FreeAllResets ==
    /\ \A r \in {free_all(Self)} :
           /\ r.self.alloc_table = BlockNode_new(M, memory)
           /\ Shape(r.self) = {<<memory, M, "FreeLeaf">>}
           /\ r.self.total_free = M
           /\ CellsInUse(r.self) = {}
           /\ r.self.memory = memory /\ r.self.upper_memory_bound = memory + M
           /\ alloc_bytes(r.self, M).res = "Ok"
           /\ \A p \in memory..(memory + M - 1) :
                  /\ free(r.self, p).res = "DoubleFree"
                  /\ free_nonnull(r.self, p).res = "DoubleFree"
    /\ DOMAIN live \subseteq (memory..(memory + M - 1)) \X BlockSizes
    /\ last.op = "free_all" =>
           /\ Shape(Self) = {<<memory, M, "FreeLeaf">>}
           /\ total_free = M /\ CellsInUse(Self) = {} /\ DOMAIN live = {}

\* free_all was called while more than one minimal block was allocated.
C18_Witness ==
    /\ last.op = "free_all" /\ last.bytes > B
    /\ alloc_table = BlockNode_new(M, memory)
    /\ FreeCells(proto_allocator) = 1..BLOCK_COUNT

\* C19: an allocator that came out of new, and one that came out of
\* new_unpinned and then init_pinned, are in the same state: the root is a
\* FreeLeaf of M bytes at the arena base, the upper bound is base + M, no
\* cell of the node allocator is in use, total_free() = heap_size() = M and
\* total_allocated() = 0.
C19_SameInitialState ==
    /\ last.op \in {"new", "init_pinned"} =>
           /\ alloc_table = [block_address |-> memory, size |-> M, state |-> FreeLeaf]
           /\ Shape(Self) = {<<memory, M, "FreeLeaf">>}
           /\ upper_memory_bound = memory + M
           /\ CellsInUse(Self) = {}
           /\ get_total_free(Self) = M /\ heap_size(Self) = M
           /\ total_allocated(Self) = 0
           /\ \A zero_initialized \in BOOLEAN : Self = new(zero_initialized, memory)
    /\ last.op = "new_unpinned" =>
           \A zero_initialized \in BOOLEAN :
               init_pinned(Self) = new(zero_initialized, memory)

\* init_pinned has run on an allocator that lies elsewhere than the arena of
\* the other specifications.
C19_Witness ==
    /\ last.op = "init_pinned"
    /\ memory = ArenaBase + 1
    /\ alloc_table = BlockNode_new(M, memory)
    /\ upper_memory_bound = memory + M

\* The Parent nodes whose children are both FreeLeaf.
Uncoalesced(self) ==
    {r \in Subtree(self, 0) :
        /\ NodeAt(self, r).state.tag = "Parent"
        /\ NodeAt(self, NodeAt(self, r).state.left).state.tag = "FreeLeaf"
        /\ NodeAt(self, NodeAt(self, r).state.right).state.tag = "FreeLeaf"}

\* C20: after every alloc_bytes, alloc, free and free_nonnull that returned,
\* with Ok or with an error, no Parent node has two FreeLeaf children.
C20_EagerCoalescing == ~panicked => Uncoalesced(Self) = {}

\* A free that did not empty the arena merged two buddies, and the Parent
\* above them was kept because its other child is not free.
C20_Witness ==
    /\ IsFree(last.op) /\ last.res = "Ok" /\ last.visits >= 3
    /\ alloc_table.state.tag = "Parent"
    /\ \E b \in Blocks(Self, "FreeLeaf") :
           b[2] > last.bytes /\ b[1] <= last.ptr /\ last.ptr < b[1] + b[2]

\* The references of the leaves of the tree.
LeafRefs(self) ==
    {r \in Subtree(self, 0) : NodeAt(self, r).state.tag \in {"FreeLeaf", "AllocatedLeaf"}}

\* The block of the node `ref` refers to, as <<address, size>>.
BlockOf(self, ref) == <<NodeAt(self, ref).block_address, NodeAt(self, ref).size>>

\* C21: after every completed operation the blocks of the leaves are
\* pairwise disjoint and together make up [base, base + M); every node but
\* the root is the child of exactly one Parent, and the children of a Parent
\* are the two halves of its block, the left one at its address.
C21_LeavesTileArena ==
    ~panicked =>
        \A T \in {Subtree(Self, 0)}, L \in {LeafRefs(Self)} :
            /\ BlockOf(Self, 0) = <<memory, M>>
            /\ \A r1, r2 \in L :
                   r1 # r2 => ~Overlap(BlockOf(Self, r1), BlockOf(Self, r2))
            /\ UNION {BlockOf(Self, r)[1]..(BlockOf(Self, r)[1] + BlockOf(Self, r)[2] - 1) :
                         r \in L} = memory..(memory + M - 1)
            /\ \A r \in T \ {0} :
                   Cardinality({p \in T : /\ NodeAt(Self, p).state.tag = "Parent"
                                          /\ r \in {NodeAt(Self, p).state.left,
                                                    NodeAt(Self, p).state.right}}) = 1
            /\ \A p \in T :
                   NodeAt(Self, p).state.tag = "Parent" =>
                       LET node == NodeAt(Self, p)
                           half == node.size \div 2
                       IN  /\ node.state.left # node.state.right
                           /\ 0 \notin {node.state.left, node.state.right}
                           /\ 2 * half = node.size
                           /\ BlockOf(Self, node.state.left) = <<node.block_address, half>>
                           /\ BlockOf(Self, node.state.right) =
                                  <<node.block_address + half, half>>

\* A free that was not the undoing of the allocation before it left a tree
\* with free and allocated leaves, three or more in all.
C21_Witness ==
    /\ IsFree(last.op) /\ last.res = "Ok" /\ ~last.chained
    /\ Cardinality(LeafRefs(Self)) >= 3
    /\ Blocks(Self, "FreeLeaf") # {} /\ Blocks(Self, "AllocatedLeaf") # {}

\* The number of Parent nodes on the longest path from `ref` to a leaf.
RECURSIVE Depth(_, _)
Depth(self, ref) ==
    LET node == NodeAt(self, ref) IN
    IF node.state.tag = "Parent"
    THEN LET l == Depth(self, node.state.left)
             r == Depth(self, node.state.right)
         IN  1 + (IF l >= r THEN l ELSE r)
    ELSE 0

IsPowerOfTwo(n) == \E k \in 0..M : Pow2(k) = n

\* C22: the size of every node of the tree is a power of two in B..M, its
\* offset from the arena base is a multiple of its size, and a child has
\* half the size of its parent; so the tree is at most log2(M / B) deep, a
\* block of B bytes is never split, and the offset of every pointer that
\* was returned is a multiple of the size of its block.
C22_SizesAndAlignment ==
    /\ IsPowerOfTwo(M) /\ IsPowerOfTwo(B) /\ M % B = 0 /\ M = B * Pow2(Order)
    /\ \A r \in Subtree(Self, 0) :
           \A node \in {NodeAt(Self, r)} :
               /\ IsPowerOfTwo(node.size)
               /\ B <= node.size /\ node.size <= M
               /\ (node.block_address - memory) % node.size = 0
               /\ node.state.tag = "Parent" =>
                      /\ node.size > B
                      /\ 2 * NodeAt(Self, node.state.left).size = node.size
                      /\ 2 * NodeAt(Self, node.state.right).size = node.size
    /\ Depth(Self, 0) <= Order
    /\ \A e \in DOMAIN live : (e[1] - memory) % e[2] = 0
    /\ (IsAlloc(last.op) /\ last.res = "Ok") => (last.ptr - memory) % last.bytes = 0

\* A block of B bytes was handed out at the bottom of a tree of full depth,
\* not at the arena base.
C22_Witness ==
    /\ IsAlloc(last.op) /\ last.res = "Ok"
    /\ last.bytes = B /\ last.ptr # memory
    /\ Depth(Self, 0) = Order

ParentRefs(self) ==
    {r \in Subtree(self, 0) : NodeAt(self, r).state.tag = "Parent"}

\* C23: after every call that returned, the cells in use are exactly the
\* nodes of the tree other than the root, two for each Parent (a split took
\* two, a coalesce gave the two children's cells back); free never panics
\* on handing a cell back (none is handed back twice); and when no issued
\* pointer is outstanding no cell is in use.
C23_SlabAccounting ==
    /\ IsFree(last.op) => last.res # "Panic"
    /\ ~panicked =>
           \A T \in {Subtree(Self, 0)} :
               /\ CellsInUse(Self) = T \ {0}
               /\ Cardinality(CellsInUse(Self)) = 2 * Cardinality(ParentRefs(Self))
               /\ \A c \in FreeCells(proto_allocator) : c \notin T
               /\ live = NoneLive => CellsInUse(Self) = {}

\* A free coalesced two blocks of B bytes into their parent and gave their
\* two cells back while two other cells stay in use.
C23_Witness ==
    /\ IsFree(last.op) /\ last.res = "Ok" /\ last.bytes = B
    /\ \E b \in Blocks(Self, "FreeLeaf") :
           b[2] = 2 * B /\ last.arg \in b[1]..(b[1] + b[2] - 1)
    /\ Cardinality(CellsInUse(Self)) = 2
    /\ live # NoneLive

\* The free blocks of `self` that can hold `size` bytes.
Fitting(self, size) == {b \in Blocks(self, "FreeLeaf") : b[2] >= size}

\* A successful allocation returned the start of the lowest FreeLeaf of the
\* state before the call that is at least as large as the request, and the
\* block handed out lies at the start of that leaf.
C24_LowestFit ==
    (IsAlloc(last'.op) /\ last'.res = "Ok") =>
        \A fits \in {Fitting(Self, last'.arg)} :
            /\ \E b \in fits : b[1] = last'.ptr /\ last'.bytes <= b[2]
            /\ \A b \in fits : last'.ptr <= b[1]
            /\ last'.bytes = RoundedSize(last'.arg)

RECURSIVE BlockNode_alloc_unpruned(_, _, _)
BlockNode_alloc_unpruned(self, ref, alloc_size) ==
    LET node == NodeAt(self, ref) IN
    CASE node.state.tag = "FreeLeaf" ->
            IF node.size < alloc_size
            THEN Miss(self, 1)
            ELSE LET d == BlockNode_alloc_down(node.block_address, node.size,
                                               alloc_size, self.proto_allocator)
                     taken == [self EXCEPT !.proto_allocator = d.pa]
                 IN  IF d.panic
                     THEN [hit |-> FALSE, ptr |-> Null, allocated |-> 0,
                           self |-> taken, panic |-> TRUE, visits |-> 1]
                     ELSE [hit |-> TRUE, ptr |-> node.block_address,
                           allocated |-> d.allocated,
                           self |-> SetState(taken, ref, d.state),
                           panic |-> FALSE, visits |-> 1]
      [] node.state.tag = "Parent" ->
            LET l == BlockNode_alloc_unpruned(self, node.state.left, alloc_size) IN
            IF l.hit \/ l.panic
            THEN [l EXCEPT !.visits = @ + 1]
            ELSE LET r == BlockNode_alloc_unpruned(l.self, node.state.right, alloc_size)
                 IN  [r EXCEPT !.visits = @ + l.visits + 1]
      [] node.state.tag = "AllocatedLeaf" -> Miss(self, 1)

\* Every node below a Parent is smaller than the Parent.
C25_DescendantsSmaller ==
    \A p \in ParentRefs(Self) :
        \A r \in Subtree(Self, p) \ {p} : NodeAt(Self, r).size < NodeAt(Self, p).size

\* A call that searched the tree ended as the search without the prune ends
\* from the same state: same hit or miss (or panic), same address and block
\* size, same tree and node cells afterwards.
C25_SameAsUnpruned ==
    (IsAlloc(last'.op) /\ last'.visits > 0) =>
        \A u \in {BlockNode_alloc_unpruned(Self, 0, last'.arg)} :
            /\ u.hit = (last'.res = "Ok")
            /\ u.panic = (last'.res = "Panic")
            /\ u.ptr = last'.ptr
            /\ u.allocated = last'.bytes
            /\ u.self.alloc_table = alloc_table'
            /\ u.self.proto_allocator = proto_allocator'

\* C25: the early return of a Parent whose size is at most the request never
\* changes what BlockNode::alloc returns or leaves behind, because every
\* node below a Parent is smaller than it.
C25_PruneIsSound == [][C25_SameAsUnpruned]_vars /\ []C25_DescendantsSmaller

\* A request as large as a Parent below the root was turned away at that
\* Parent and served by the free block to its right.
C25_Witness ==
    /\ IsAlloc(last.op) /\ last.res = "Ok" /\ last.arg = M \div 2
    /\ last.ptr = memory + M \div 2 /\ last.visits = 3
    /\ \E p \in ParentRefs(Self) : NodeAt(Self, p).size = M \div 2
                                    /\ NodeAt(Self, p).block_address = memory

\* How far the arena of the box-backed allocator lies from the arena of the
\* slab-backed one.
BoxArenaOffset == 5

\* The tree of lib.rs that has the shape of the slab-backed tree below
\* `ref`: each node owns its children (Box<BlockNode>) instead of referring
\* to cells, and its block lies in the other arena.
RECURSIVE Boxed(_, _)
Boxed(self, ref) ==
    LET node == NodeAt(self, ref) IN
    [block_address |-> byte_add(node.block_address, BoxArenaOffset),
     size |-> node.size,
     state |-> IF node.state.tag = "Parent"
               THEN Parent(Boxed(self, node.state.left), Boxed(self, node.state.right))
               ELSE node.state]

\* The box-backed allocator in the state that corresponds to `self`.
BoxBacked(self) ==
    [memory |-> byte_add(self.memory, BoxArenaOffset),
     alloc_table |-> Boxed(self, 0),
     upper_memory_bound |-> byte_add(self.upper_memory_bound, BoxArenaOffset),
     total_free |-> self.total_free]

\* The pointer with the same arena offset in the other arena; null is null.
BoxPointer(ptr) == IF ptr = Null THEN Null ELSE byte_add(ptr, BoxArenaOffset)

\* The same call on the box-backed allocator.
BoxCall(self, op, arg) ==
    CASE op = "alloc_bytes" -> lib_alloc_bytes(self, arg)
      [] op = "free" -> lib_free(self, BoxPointer(arg))
      [] op = "free_all" -> lib_free_all(self)

\* An alloc_bytes, free or free_all call that returned, with a pointer that
\* is null or inside the arena,
\* is matched by the same call on the box-backed allocator started in the
\* corresponding state: same result, same arena offset, same block size,
\* same total_free, and trees of the same shape afterwards.
C26_SameStep ==
    (/\ last'.op \in {"alloc_bytes", "free", "free_all"}
     /\ ~panicked'
     /\ IsFree(last'.op) => (last'.arg = Null \/ InBounds(last'.arg))) =>
        \A box \in {BoxBacked(Self)} :
            \A l \in {BoxCall(box, last'.op, last'.arg)} :
                /\ l.res = last'.res
                /\ l.ptr = BoxPointer(last'.ptr)
                /\ last'.op # "free_all" => l.bytes = last'.bytes
                /\ lib_total_free(l.self) = total_free'
                /\ l.self.alloc_table =
                       IF alloc_table' = alloc_table /\ proto_allocator' = proto_allocator
                       THEN box.alloc_table
                       ELSE Boxed(Self', 0)

\* C26: the box-backed and the slab-backed allocator cannot be told apart
\* by calls whose pointers are null or inside the arena, as long as the
\* slab-backed one does not run out of node cells: each call has the same
\* result and arena offset, and leaves the same total_free and tree shape.
C26_BoxAndSlabAgree == [][C26_SameStep]_vars

\* A free inside the arena that coalesced, after which both allocators hold
\* a tree with a Parent and an allocated block; and the trees they start
\* with correspond.
C26_Witness ==
    /\ last.op = "free" /\ last.res = "Ok" /\ InBounds(last.arg)
    /\ last.bytes = B /\ last.ptr # memory
    /\ Boxed(Self, 0).state.tag = "Parent"
    /\ Boxed(Self, 0).state.left.state.tag = "FreeLeaf"
    /\ Boxed(Self, 0).state.right.state.tag = "AllocatedLeaf"
    /\ lib_BlockNode_new(M, byte_add(ArenaBase, BoxArenaOffset))
           = [Boxed(Self, 0) EXCEPT !.state = FreeLeaf]

\* free and free_nonnull return Ok exactly for a pointer inside the arena
\* that is the start address of a block allocated in the state before the
\* call; the block released is that block, which is the one the latest
\* allocation at that address handed out.
C27_FreeStep ==
    (IsFree(last'.op) /\ ~panicked') =>
        \A allocated \in {Blocks(Self, "AllocatedLeaf")} :
            /\ (last'.res = "Ok") <=>
                   (InBounds(last'.arg) /\ \E b \in allocated : b[1] = last'.arg)
            /\ last'.res = "Ok" =>
                   /\ <<last'.arg, last'.bytes>> \in allocated
                   /\ <<last'.arg, last'.bytes>> \in DOMAIN live
                   /\ \A e \in DOMAIN live' : e[1] # last'.arg
                   /\ total_free' = total_free + last'.bytes

\* C27: free(p) succeeds exactly when p is inside the arena and is the start
\* address of a leaf that is an AllocatedLeaf when the call is made.  What
\* was issued before plays no part: a pointer that was freed is accepted
\* again as soon as a later allocation has made a block that starts at it
\* allocated, and the free releases the block of that later allocation.
C27_FreeSeesOnlyTheTree == [][C27_FreeStep]_vars

\* The arena base was freed with Ok right after the call that handed it
\* out, while another pointer is live.  The first allocation of an arena
\* always returns the base, and the live pointer was issued before the
\* latest allocation of the base, so the base had been issued and freed
\* before: the address freed here is one that was already freed once, and
\* the free released the B bytes of the latest allocation, which coalesced
\* into a larger free block.
C27_Witness ==
    /\ IsFree(last.op) /\ last.res = "Ok" /\ last.chained
    /\ last.arg = memory /\ last.bytes = B
    /\ \E b \in Blocks(Self, "FreeLeaf") :
           b[1] = last.arg /\ b[2] > B
    /\ live # NoneLive
    /\ ~panicked

\* The number of nodes on the longest root-to-leaf path the tree can have.
PathLength == Order + 1

\* C28: every call terminates having visited a number of nodes bounded by
\* the height of the tree: a free walks one root-to-leaf path, at most
\* log2(M / B) + 1 nodes, and so, likewise, does an allocation.
C28_VisitsOnePath ==
    /\ IsFree(last.op) => last.visits <= PathLength
    /\ IsAlloc(last.op) => last.visits <= PathLength

====
